---- MODULE Spec2Model ----
(***************************************************************************)
(* Workspace-root resolution of js-workspace: the manager registry         *)
(* (src/workspace/manager.rs) and the upward search (src/workspace/root.rs).*)
(*                                                                         *)
(* A string is a sequence of one-character strings, a path is a record     *)
(* [abs, comps]: whether it starts at the filesystem root, and its         *)
(* components.  The filesystem is what the existence check can report:     *)
(* fs is the set of <<directory, file name>> for which stat succeeds,      *)
(* denied the set of directories in which stat fails with an error other   *)
(* than not-found (EACCES); every other path is not found.                 *)
(***************************************************************************)
EXTENDS Integers, Sequences, FiniteSets, TLC

VARIABLES
    pc,        \* "idle" | "search" | "done" | "parse" | "path"
    fs,        \* files stat reports as existing: <<absolute dir comps, name>>
    denied,    \* directories (absolute comps) where stat fails with EACCES
    envVar,    \* the process environment's PREFERRED_WORKSPACE_MANAGER
    procCwd,   \* the process's current directory (absolute comps)
    entry,     \* "new" | "with_manager": the public function called
    start,     \* the cwd argument of the call
    mgr,       \* with_manager's manager argument, "none" for auto-detection
    files,     \* search_up: the candidate file names, in order
    cwd,       \* search_up: the directory being tested
    idx,       \* search_up: index in files of the next candidate
    checks,    \* log of existence checks: <<[path, stat]>>, in order
    result,    \* the call's return value
    arg,       \* input of the pure function under check
    ret        \* its result

vars == <<pc, fs, denied, envVar, procCwd, entry, start, mgr, files, cwd, idx,
          checks, result, arg, ret>>

(***************************** bounds **************************************)
\* Directories are the prefixes of Chain, so MaxDepth + 1 levels.
MaxDepth == 2
\* A layout holds at most MaxFiles marker files and unreadable directories.
MaxFiles == 2
\* Paths given to try_from have at most MaxPathLen components.
MaxPathLen == 3

(************************* manager.rs **************************************)
Manager == {"Yarn", "Pnpm", "Rush", "Npm", "Lerna"}

\* The precedence of the marker files (lines 10-18).
SEARCH_ORDER == <<"Lerna", "Rush", "Yarn", "Pnpm", "Npm">>

Lowercase == [c \in {"A", "E", "H", "L", "M", "N", "O", "P", "R", "S", "T",
                     "U", "W", "Y", "X"} |->
    CASE c = "A" -> "a" [] c = "E" -> "e" [] c = "H" -> "h" [] c = "L" -> "l"
      [] c = "M" -> "m" [] c = "N" -> "n" [] c = "O" -> "o" [] c = "P" -> "p"
      [] c = "R" -> "r" [] c = "S" -> "s" [] c = "T" -> "t" [] c = "U" -> "u"
      [] c = "W" -> "w" [] c = "Y" -> "y" [] c = "X" -> "x"]

\* str::to_lowercase: every cased character to its lowercase form.
to_lowercase(s) ==
    [i \in 1..Len(s) |-> IF s[i] \in DOMAIN Lowercase THEN Lowercase[s[i]] ELSE s[i]]

from_str_keep_case(input) ==
    CASE input = <<"y", "a", "r", "n">> -> [ok |-> TRUE, val |-> "Yarn"]
      [] input = <<"p", "n", "p", "m">> -> [ok |-> TRUE, val |-> "Pnpm"]
      [] input = <<"r", "u", "s", "h">> -> [ok |-> TRUE, val |-> "Rush"]
      [] input = <<"n", "p", "m">> -> [ok |-> TRUE, val |-> "Npm"]
      [] input = <<"l", "e", "r", "n", "a">> -> [ok |-> TRUE, val |-> "Lerna"]
      [] OTHER -> [ok |-> FALSE, err |-> input]

\* impl FromStr for Manager; the error is ParseManagerError(input).
from_str(input) ==
    LET l == to_lowercase(input) IN
    CASE l = <<"y", "a", "r", "n">> -> [ok |-> TRUE, val |-> "Yarn"]
      [] l = <<"p", "n", "p", "m">> -> [ok |-> TRUE, val |-> "Pnpm"]
      [] l = <<"r", "u", "s", "h">> -> [ok |-> TRUE, val |-> "Rush"]
      [] l = <<"n", "p", "m">> -> [ok |-> TRUE, val |-> "Npm"]
      [] l = <<"l", "e", "r", "n", "a">> -> [ok |-> TRUE, val |-> "Lerna"]
      [] OTHER -> [ok |-> FALSE, err |-> input]

\* std::env::var: Ok(value) when the variable is set to valid Unicode,
\* Err(NotPresent) when unset, Err(NotUnicode) otherwise.
env_var(e) ==
    IF e.set /\ e.unicode THEN [ok |-> TRUE, val |-> e.val] ELSE [ok |-> FALSE]

\* Manager::from_env: [ok, val] with val "none" for Ok(None).
from_env(e) ==
    LET v == env_var(e) IN
    IF v.ok
    THEN LET p == from_str(v.val) IN
         IF p.ok THEN [ok |-> TRUE, val |-> p.val] ELSE [ok |-> FALSE, err |-> p.err]
    ELSE [ok |-> TRUE, val |-> "none"]

\* Manager::preferred, the name Root::new reads the override by.
preferred(e) == from_env(e)

\* impl AsRef<Path> for Manager: the marker file name.
as_ref(m) ==
    CASE m = "Yarn" -> "yarn.lock"
      [] m = "Pnpm" -> "pnpm-workspace.yaml"
      [] m = "Rush" -> "rush.json"
      [] m = "Npm" -> "package-lock.json"
      [] m = "Lerna" -> "lerna.json"

\* Path::file_name: the final component, None for the empty path, the root
\* and a path ending in "..".
file_name(p) ==
    IF p.comps = <<>> \/ p.comps[Len(p.comps)] = ".."
    THEN [some |-> FALSE]
    ELSE [some |-> TRUE, val |-> p.comps[Len(p.comps)]]

try_from_whole_path(p) ==
    CASE p.comps = <<"yarn.lock">> -> [ok |-> TRUE, val |-> "Yarn"]
      [] p.comps = <<"pnpm-workspace.yaml">> -> [ok |-> TRUE, val |-> "Pnpm"]
      [] p.comps = <<"rush.json">> -> [ok |-> TRUE, val |-> "Rush"]
      [] p.comps = <<"package-lock.json">> -> [ok |-> TRUE, val |-> "Npm"]
      [] p.comps = <<"lerna.json">> -> [ok |-> TRUE, val |-> "Lerna"]
      [] OTHER -> [ok |-> FALSE, err |-> p]

\* impl TryFrom<&Path> for Manager; the error is InvalidFileError(path).
try_from(p) ==
    LET f == file_name(p) IN
    CASE f.some /\ f.val = "yarn.lock" -> [ok |-> TRUE, val |-> "Yarn"]
      [] f.some /\ f.val = "pnpm-workspace.yaml" -> [ok |-> TRUE, val |-> "Pnpm"]
      [] f.some /\ f.val = "rush.json" -> [ok |-> TRUE, val |-> "Rush"]
      [] f.some /\ f.val = "package-lock.json" -> [ok |-> TRUE, val |-> "Npm"]
      [] f.some /\ f.val = "lerna.json" -> [ok |-> TRUE, val |-> "Lerna"]
      [] OTHER -> [ok |-> FALSE, err |-> p]

(***************************** root.rs **************************************)
RootDir == [abs |-> TRUE, comps |-> <<>>]

\* Path::join with a relative one-component name.
join(p, f) == [abs |-> p.abs, comps |-> Append(p.comps, f)]

pop_always_ok(p) ==
    IF p.comps = <<>>
    THEN [ok |-> TRUE, path |-> p]
    ELSE [ok |-> TRUE,
          path |-> [abs |-> p.abs, comps |-> SubSeq(p.comps, 1, Len(p.comps) - 1)]]

\* PathBuf::pop: drops the last component; false (path unchanged) when the
\* path has no parent, i.e. it is the root "/" or the empty relative path.
pop(p) ==
    IF p.comps = <<>>
    THEN [ok |-> FALSE, path |-> p]
    ELSE [ok |-> TRUE,
          path |-> [abs |-> p.abs, comps |-> SubSeq(p.comps, 1, Len(p.comps) - 1)]]

\* The absolute components the operating system resolves p to: a relative
\* path is taken from the process's current directory d.
resolve(p, d) == IF p.abs THEN p.comps ELSE d \o p.comps

\* The metadata lookup behind Path::exists, for a path of at least one
\* component, with the filesystem f, the unreadable directories x and the
\* process's current directory d.
stat(p, f, x, d) ==
    LET full == resolve(p, d)
        dir == SubSeq(full, 1, Len(full) - 1)
        name == full[Len(full)]
    IN  IF dir \in x THEN "Err"
        ELSE IF <<dir, name>> \in f THEN "Found"
        ELSE "NotFound"

\* Path::exists: true only when the lookup succeeds; every error, not-found
\* or other, is false.
exists(p, f, x, d) == stat(p, f, x, d) = "Found"

NotFound == [kind |-> "Io", err |-> "NotFound"]

\* Root::new, lines 41-43: the manager from the found file's name, the path
\* truncated to the file's parent.
new_root(candidate) ==
    LET m == try_from(candidate) IN
    IF m.ok
    THEN [kind |-> "Ok", manager |-> m.val, path |-> pop(candidate).path]
    ELSE [kind |-> "Manager", msg |-> <<"Invalid manager file: ", m.err>>]

with_manager_root_keeps_file(candidate, manager) ==
    [kind |-> "Ok", manager |-> manager, path |-> candidate]

\* Root::with_manager, lines 48-49.
with_manager_root(candidate, manager) ==
    [kind |-> "Ok", manager |-> manager, path |-> pop(candidate).path]

\* The value the public call returns once search_up returned Ok(candidate).
found(candidate, manager) ==
    IF manager = "none" THEN new_root(candidate)
    ELSE with_manager_root(candidate, manager)

candidates_reversed(manager) ==
    IF manager = "none"
    THEN [i \in 1..Len(SEARCH_ORDER) |-> as_ref(SEARCH_ORDER[Len(SEARCH_ORDER) + 1 - i])]
    ELSE <<as_ref(manager)>>

candidates_all(manager) ==
    [i \in 1..Len(SEARCH_ORDER) |-> as_ref(SEARCH_ORDER[i])]

\* The files argument of search_up: SEARCH_ORDER (line 40) or [&manager]
\* (line 47), each through as_ref (line 59).
candidates(manager) ==
    IF manager = "none"
    THEN [i \in 1..Len(SEARCH_ORDER) |-> as_ref(SEARCH_ORDER[i])]
    ELSE <<as_ref(manager)>>

(************************** the environment ********************************)
DirNames == <<"a", "b", "c", "d", "e", "f">>

Chain == SubSeq(DirNames, 1, MaxDepth)

\* The directories: /, /a, /a/b, ...
Dirs == {SubSeq(Chain, 1, k) : k \in 0..MaxDepth}

Markers == {as_ref(m) : m \in Manager}

\* What a layout is made of: a marker file in a directory, or a directory
\* made unreadable.
Items == {<<"file", d, f>> : d \in Dirs, f \in Markers}
            \cup {<<"deny", d, "">> : d \in Dirs}

RECURSIVE UpTo(_, _)
\* The subsets of S of at most k elements.
UpTo(S, k) ==
    IF k = 0 THEN {{}}
    ELSE LET T == UpTo(S, k - 1) IN T \cup {t \cup {x} : t \in T, x \in S}

\* stat cannot report a file in a directory it cannot search.
Layouts ==
    {L \in UpTo(Items, MaxFiles) :
        \A i \in L : i[1] = "file" => <<"deny", i[2], "">> \notin L}

Unset == [set |-> FALSE, unicode |-> TRUE, val |-> <<>>]

NotUnicode == [set |-> TRUE, unicode |-> FALSE, val |-> <<>>]

Text(s) == [set |-> TRUE, unicode |-> TRUE, val |-> s]

\* Values of the override variable: unset, not valid Unicode, the five
\* identifiers in some letter-casing, and two that are no identifier.
EnvValues ==
    {Unset, NotUnicode,
     Text(<<"Y", "a", "r", "n">>), Text(<<"P", "N", "P", "M">>),
     Text(<<"r", "u", "s", "h">>), Text(<<"n", "p", "M">>),
     Text(<<"L", "E", "R", "N", "a">>),
     Text(<<"y", "a", "r", "n", " ">>)}

\* Start directories: every directory by its absolute path, and, from a
\* current directory of depth k, by the relative path of the rest of it.
AbsStarts == {[abs |-> TRUE, comps |-> d] : d \in Dirs}

RelStarts(d) ==
    {[abs |-> FALSE, comps |-> SubSeq(Chain, Len(d) + 1, k)] : k \in Len(d)..MaxDepth}

(***************************** the calls ***********************************)
Init ==
    /\ pc = "idle"
    /\ \E L \in Layouts :
        /\ fs = {<<i[2], i[3]>> : i \in {j \in L : j[1] = "file"}}
        /\ denied = {i[2] : i \in {j \in L : j[1] = "deny"}}
    /\ envVar = Unset
    /\ procCwd = <<>>
    /\ entry = "none"
    /\ start = RootDir
    /\ mgr = "none"
    /\ files = <<>>
    /\ cwd = RootDir
    /\ idx = 1
    /\ checks = <<>>
    /\ result = [kind |-> "None"]
    /\ arg = <<>>
    /\ ret = [ok |-> FALSE]

\* The caller's process: its current directory and the start path it passes.
Caller ==
    \E d \in Dirs :
        /\ procCwd' = d
        /\ start' \in AbsStarts \cup RelStarts(d)

\* Root::new up to the call of search_up (lines 36-40).
Root_new ==
    /\ pc = "idle"
    /\ Caller
    /\ entry' = "new"
    /\ envVar' \in EnvValues
    /\ LET p == preferred(envVar') IN
        IF ~p.ok
        THEN /\ pc' = "done"
             /\ result' = [kind |-> "Manager", msg |-> <<"Invalid manager: ", p.err>>]
             /\ UNCHANGED <<mgr, files, cwd>>
        ELSE /\ pc' = "search"
             /\ mgr' = p.val
             /\ files' = candidates(p.val)
             /\ cwd' = start'
             /\ UNCHANGED result
    /\ UNCHANGED <<fs, denied, idx, checks, arg, ret>>

\* Root::with_manager up to the call of search_up (line 47).
with_manager ==
    /\ pc = "idle"
    /\ Caller
    /\ entry' = "with_manager"
    /\ \E m \in Manager :
        /\ mgr' = m
        /\ files' = candidates(m)
    /\ cwd' = start'
    /\ pc' = "search"
    /\ UNCHANGED <<fs, denied, envVar, idx, checks, result, arg, ret>>

search_up_file_major ==
    /\ pc = "search"
    /\ LET candidate == join(cwd, files[idx])
           up == pop(cwd)
       IN
        /\ checks' = Append(checks, [path |-> candidate,
                                     stat |-> stat(candidate, fs, denied, procCwd)])
        /\ IF exists(candidate, fs, denied, procCwd)
           THEN /\ pc' = "done"
                /\ result' = found(candidate, mgr)
                /\ UNCHANGED <<cwd, idx>>
           ELSE IF up.ok
           THEN /\ cwd' = up.path
                /\ UNCHANGED <<pc, idx, result>>
           ELSE IF idx < Len(files)
           THEN /\ idx' = idx + 1
                /\ cwd' = start
                /\ UNCHANGED <<pc, result>>
           ELSE /\ pc' = "done"
                /\ result' = NotFound
                /\ UNCHANGED <<cwd, idx>>
    /\ UNCHANGED <<fs, denied, envVar, procCwd, entry, start, mgr, files, arg, ret>>

\* search_up: one pass of the inner loop (lines 62-67) and, after the last
\* candidate of a level, the step to the parent (lines 69-71).
search_up ==
    /\ pc = "search"
    /\ LET candidate == join(cwd, files[idx])
           up == pop(cwd)
       IN
        /\ checks' = Append(checks, [path |-> candidate,
                                     stat |-> stat(candidate, fs, denied, procCwd)])
        /\ IF exists(candidate, fs, denied, procCwd)
           THEN /\ pc' = "done"
                /\ result' = found(candidate, mgr)
                /\ UNCHANGED <<cwd, idx>>
           ELSE IF idx < Len(files)
           THEN /\ idx' = idx + 1
                /\ UNCHANGED <<pc, cwd, result>>
           ELSE IF up.ok
           THEN /\ cwd' = up.path
                /\ idx' = 1
                /\ UNCHANGED <<pc, result>>
           ELSE /\ pc' = "done"
                /\ result' = NotFound
                /\ UNCHANGED <<cwd, idx>>
    /\ UNCHANGED <<fs, denied, envVar, procCwd, entry, start, mgr, files, arg, ret>>

Next == Root_new \/ with_manager \/ search_up

Spec == Init /\ [][Next]_vars

(********************* the registry's pure functions ***********************)
Uppercase(c) ==
    CASE c = "a" -> "A" [] c = "e" -> "E" [] c = "h" -> "H" [] c = "l" -> "L"
      [] c = "m" -> "M" [] c = "n" -> "N" [] c = "o" -> "O" [] c = "p" -> "P"
      [] c = "r" -> "R" [] c = "s" -> "S" [] c = "t" -> "T" [] c = "u" -> "U"
      [] c = "w" -> "W" [] c = "y" -> "Y" [] c = "x" -> "X" [] OTHER -> c

\* The textual identifier of each manager (spec, section 3).
Identifier(m) ==
    CASE m = "Yarn" -> <<"y", "a", "r", "n">>
      [] m = "Pnpm" -> <<"p", "n", "p", "m">>
      [] m = "Rush" -> <<"r", "u", "s", "h">>
      [] m = "Npm" -> <<"n", "p", "m">>
      [] m = "Lerna" -> <<"l", "e", "r", "n", "a">>

\* s and t are equal up to the casing of their letters.
EqIgnoreCase(s, t) ==
    /\ Len(s) = Len(t)
    /\ \A i \in 1..Len(s) : Uppercase(s[i]) = Uppercase(t[i])

\* Every letter-casing of w.
Casings(w) ==
    {[i \in 1..Len(w) |-> IF i \in S THEN Uppercase(w[i]) ELSE w[i]] :
        S \in SUBSET (1..Len(w))}

\* The identifiers, and strings that are none: a test's "lolwut", the empty
\* string, a prefix, an extension, an identifier with a blank around it.
Words ==
    {Identifier(m) : m \in Manager}
        \cup {<<"l", "o", "l", "w", "u", "t">>, <<>>, <<"y", "a", "r">>,
              <<"n", "p", "m", "x">>, <<" ", "n", "p", "m">>,
              <<"r", "u", "s", "h", " ">>, <<"p", "n", "p", "n">>}

ParseInputs == UNION {Casings(w) : w \in Words}

Blank ==
    /\ fs = {}
    /\ denied = {}
    /\ envVar = Unset
    /\ procCwd = <<>>
    /\ entry = "none"
    /\ start = RootDir
    /\ mgr = "none"
    /\ files = <<>>
    /\ cwd = RootDir
    /\ idx = 1
    /\ checks = <<>>
    /\ result = [kind |-> "None"]

InitParse ==
    /\ pc = "parse"
    /\ Blank
    /\ arg \in ParseInputs
    /\ ret = [ok |-> FALSE]

\* A call of str::parse::<Manager>.
parse ==
    /\ pc = "parse"
    /\ ret' = from_str(arg)
    /\ pc' = "parsed"
    /\ UNCHANGED <<fs, denied, envVar, procCwd, entry, start, mgr, files, cwd,
                   idx, checks, result, arg>>

SpecParse == InitParse /\ [][parse]_vars

PathNames == Markers \cup {"foo", "..", "invalid", "YARN.LOCK"}

RECURSIVE SeqsUpTo(_, _)
\* The sequences over S of at most n elements.
SeqsUpTo(S, n) ==
    IF n = 0 THEN {<<>>}
    ELSE LET T == SeqsUpTo(S, n - 1) IN T \cup {Append(t, x) : t \in T, x \in S}

Paths == {[abs |-> a, comps |-> c] : a \in BOOLEAN, c \in SeqsUpTo(PathNames, MaxPathLen)}

PathDirs ==
    {[abs |-> a, comps |-> c] : a \in BOOLEAN, c \in SeqsUpTo(PathNames, MaxPathLen - 1)}

InitPath ==
    /\ pc = "path"
    /\ Blank
    /\ arg = RootDir
    /\ ret = [ok |-> FALSE]

\* Manager::try_from(dir.join(kind.as_ref())).
marker_round_trip ==
    /\ pc = "path"
    /\ \E dir \in PathDirs, kind \in Manager :
        /\ cwd' = dir
        /\ mgr' = kind
        /\ arg' = join(dir, as_ref(kind))
        /\ ret' = try_from(arg')
    /\ pc' = "round_trip"
    /\ UNCHANGED <<fs, denied, envVar, procCwd, entry, start, files, idx, checks,
                   result>>

\* Manager::try_from(path).
path_try_from ==
    /\ pc = "path"
    /\ \E p \in Paths :
        /\ arg' = p
        /\ ret' = try_from(p)
    /\ pc' = "tried"
    /\ UNCHANGED <<fs, denied, envVar, procCwd, entry, start, mgr, files, cwd,
                   idx, checks, result>>

NextPath == marker_round_trip \/ path_try_from

SpecPath == InitPath /\ [][NextPath]_vars

(******************************* claims ************************************)
\* The marker file name of each manager (spec, section 3).
MarkerFilename(m) ==
    CASE m = "Yarn" -> "yarn.lock"
      [] m = "Pnpm" -> "pnpm-workspace.yaml"
      [] m = "Rush" -> "rush.json"
      [] m = "Npm" -> "package-lock.json"
      [] m = "Lerna" -> "lerna.json"

\* Place in the precedence order Lerna > Rush > Yarn > Pnpm > Npm.
Rank(m) ==
    CASE m = "Lerna" -> 1 [] m = "Rush" -> 2 [] m = "Yarn" -> 3
      [] m = "Pnpm" -> 4 [] m = "Npm" -> 5

\* The start path with its last k components removed: the k-th directory of
\* the chain start, parent(start), ...
Level(k) == [abs |-> start.abs, comps |-> SubSeq(start.comps, 1, Len(start.comps) - k)]

Levels == 0..Len(start.comps)

\* Directory d (a path) holds the marker file of manager m.
Contains(d, m) == <<resolve(d, procCwd), MarkerFilename(m)>> \in fs

\* The nearest level of the chain holding a marker of a manager in M, or -1.
Nearest(M) ==
    LET K == {k \in Levels : \E m \in M : Contains(Level(k), m)} IN
    IF K = {} THEN -1 ELSE CHOOSE k \in K : \A j \in K : k <= j

\* The manager the override names, "none" when it names none.
Named(e) ==
    IF e.set /\ e.unicode /\ \E m \in Manager : EqIgnoreCase(e.val, Identifier(m))
    THEN CHOOSE m \in Manager : EqIgnoreCase(e.val, Identifier(m))
    ELSE "none"

AutoDone == pc = "done" /\ entry = "new" /\ ~envVar.set

\* C1: with no override set, Root::new resolves to the nearest directory of
\* the chain start, parent(start), ... that holds any of the five marker
\* files, whatever the precedence of markers farther up.
C1_ClosestRootWins ==
    AutoDone =>
        \A k \in Levels :
            k = Nearest(Manager) => result.kind = "Ok" /\ result.path = Level(k)

C1_Witness ==
    /\ AutoDone
    /\ result.kind = "Ok"
    /\ result.manager = "Yarn"
    /\ Len(result.path.comps) < Len(start.comps)
    /\ \E k \in Levels : Level(k) # result.path /\ Contains(Level(k), "Lerna")

\* C2: with no override set, the manager returned is the first of Lerna,
\* Rush, Yarn, Pnpm, Npm whose marker the winning directory holds, and
\* SEARCH_ORDER is that sequence.
C2_PrecedenceInDirectory ==
    /\ SEARCH_ORDER = <<"Lerna", "Rush", "Yarn", "Pnpm", "Npm">>
    /\ (AutoDone /\ result.kind = "Ok") =>
        /\ Contains(result.path, result.manager)
        /\ \A m \in Manager :
            Contains(result.path, m) => Rank(result.manager) <= Rank(m)

C2_Witness ==
    /\ AutoDone
    /\ result.kind = "Ok"
    /\ result.manager = "Lerna"
    /\ Contains(result.path, "Yarn")

\* C3: every successful Root of Root::new or Root::with_manager names a
\* manager whose marker file was seen to exist at path.join(marker) during
\* the resolution, path being the marker's directory.
C3_MarkerObservedAtRoot ==
    (pc = "done" /\ result.kind = "Ok") =>
        /\ result.manager \in Manager
        /\ \E i \in 1..Len(checks) :
            /\ checks[i].path = join(result.path, MarkerFilename(result.manager))
            /\ checks[i].stat = "Found"
        /\ Contains(result.path, result.manager)

C3_Witness ==
    /\ pc = "done"
    /\ result.kind = "Ok"
    /\ entry = "with_manager"
    /\ ~start.abs
    /\ Len(result.path.comps) < Len(start.comps)

\* C4: with the override naming manager M, Root::new tests only M's marker
\* at every level, and returns M with the nearest directory holding M's
\* marker (not-found when there is none), whatever other markers exist.
C4_OverrideSearchesOnlyItsMarker ==
    (entry = "new" /\ Named(envVar) # "none") =>
        LET M == Named(envVar)
            k == Nearest({M})
        IN  /\ \A i \in 1..Len(checks) :
                checks[i].path.comps[Len(checks[i].path.comps)] = MarkerFilename(M)
            /\ pc = "done" =>
                IF k = -1
                THEN result.kind = "Io" /\ result.err = "NotFound"
                ELSE /\ result.kind = "Ok"
                     /\ result.manager = M
                     /\ result.path = Level(k)

C4_Witness ==
    /\ pc = "done"
    /\ entry = "new"
    /\ Named(envVar) = "Pnpm"
    /\ result.kind = "Ok"
    /\ \E k \in Levels :
        /\ Len(Level(k).comps) > Len(result.path.comps)
        /\ Contains(Level(k), "Lerna")

Ancestors ==
    LET full == resolve(start, procCwd) IN {SubSeq(full, 1, k) : k \in 0..Len(full)}

\* The managers whose markers the call looks for.
Wanted == IF mgr = "none" THEN Manager ELSE {mgr}

\* C6: the walk covers the start directory and every ancestor up to the
\* filesystem root, and fails with not-found exactly when none of them holds
\* a candidate marker.
C6_NotFoundIffNoMarkerToRoot ==
    (pc = "done" /\ result.kind # "Manager") =>
        ((result.kind = "Io" /\ result.err = "NotFound")
            <=> \A d \in Ancestors, m \in Wanted : <<d, MarkerFilename(m)>> \notin fs)

\* C7: an existence check that fails with an error other than not-found
\* ends the resolution with that error; the walk does not go on.
C7_IoErrorPropagated ==
    \A i \in 1..Len(checks) :
        checks[i].stat = "Err" =>
            /\ i = Len(checks)
            /\ pc = "done"
            /\ result.kind = "Io"
            /\ result.err = "PermissionDenied"

\* C8: from_str returns the manager whose identifier the input equals up to
\* letter-casing, and for every other input the error with the input as
\* given.
C8_ParseCaseInsensitive ==
    pc = "parsed" =>
        IF \E m \in Manager : EqIgnoreCase(arg, Identifier(m))
        THEN ret.ok /\ EqIgnoreCase(arg, Identifier(ret.val))
        ELSE ~ret.ok /\ ret.err = arg

C8_Witness ==
    /\ pc = "parsed"
    /\ arg = <<"L", "e", "R", "n", "A">>
    /\ ret.ok
    /\ ret.val = "Lerna"

\* C9: try_from(dir.join(kind.as_ref())) is Ok(kind) for every kind and
\* every directory prefix, the five marker names are pairwise distinct, and
\* a path whose final component is none of them fails with the error
\* carrying the whole path.
C9_MarkerPathRoundTrip ==
    /\ \A m, n \in Manager : m # n => as_ref(m) # as_ref(n)
    /\ \A m \in Manager : as_ref(m) = MarkerFilename(m)
    /\ pc = "round_trip" => ret.ok /\ ret.val = mgr
    /\ pc = "tried" =>
        IF arg.comps # <<>>
            /\ \E m \in Manager : arg.comps[Len(arg.comps)] = MarkerFilename(m)
        THEN ret.ok /\ arg.comps[Len(arg.comps)] = MarkerFilename(ret.val)
        ELSE ~ret.ok /\ ret.err = arg

C9_Witness ==
    /\ pc = "round_trip"
    /\ cwd = [abs |-> FALSE, comps |-> <<>>]
    /\ mgr = "Npm"
    /\ ret.ok

\* C10: search_up ends after at most levels x candidates existence checks,
\* made level by level from the start directory upward and, in a level, in
\* the order of the candidates, none after the first that succeeds.
C10_SearchBounded ==
    LET n == Len(files) IN
    /\ Len(checks) <= (Len(start.comps) + 1) * n
    /\ \A i \in 1..Len(checks) :
        checks[i].path = join(Level((i - 1) \div n), files[((i - 1) % n) + 1])
    /\ \A i \in 1..(Len(checks) - 1) : checks[i].stat # "Found"
    /\ pc = "search" =>
        /\ ENABLED search_up
        /\ Len(checks) < (Len(start.comps) + 1) * n

C10_Witness ==
    /\ pc = "done"
    /\ result.kind = "Io"
    /\ Len(files) = Len(SEARCH_ORDER)
    /\ Len(start.comps) = MaxDepth
    /\ Len(checks) = (Len(start.comps) + 1) * Len(files)

====
